---- MODULE Spec2Model ----
(***************************************************************************)
(* Smart Standup Orchestrator (main.py, models.py, database.py).            *)
(*                                                                         *)
(* The service stores teams and stand-up entries, summarises the entries   *)
(* of the day, derives risk findings from the entry history, serves a      *)
(* dashboard payload, posts reports to a chat webhook and starts one       *)
(* background scheduler at start-up.                                       *)
(*                                                                         *)
(* Text is modelled as a sequence of one-character strings so that         *)
(* str.strip() and str.lower() are computed, not assumed.  Optional[str]   *)
(* is <<>> for None and <<s>> for the string s.  A datetime is a number    *)
(* of ticks, TicksPerDay ticks to the calendar day.                        *)
(***************************************************************************)
EXTENDS Integers, Sequences, FiniteSets

VARIABLES
    teams,          \* table team: the ids of the rows
    standups,       \* table standup: the rows, in rowid order
    now,            \* the clock, datetime.utcnow()
    tz,             \* offset of the server's local time from UTC, in ticks
    client,         \* module global client: TRUE iff GROQ_API_KEY was set
    slack_webhook,  \* TRUE iff SLACK_WEBHOOK_URL is set
    _scheduler,     \* module global _scheduler: 0 is None, else a handle
    schedulers,     \* the BackgroundScheduler objects created so far
    pc,             \* position of each thread inside on_startup
    resp,           \* the response to the last request
    delivery        \* what the last send_slack_report call did

vars == <<teams, standups, now, tz, client, slack_webhook, _scheduler,
          schedulers, pc, resp, delivery>>

----------------------------------------------------------------------------
(* Bounds of the model.                                                    *)

MaxStandups == 3
MaxTeams == 2
MaxSchedulers == 3
TicksPerDay == 2
StartDay == 3
MaxTicks == 1

----------------------------------------------------------------------------
(* Text.                                                                   *)

\* The characters in use, in code point order.
Alphabet ==
    <<" ", "/",
      "A", "B", "C", "D", "E", "F", "G", "H", "I", "J", "K", "L", "M",
      "N", "O", "P", "Q", "R", "S", "T", "U", "V", "W", "X", "Y", "Z",
      "a", "b", "c", "d", "e", "f", "g", "h", "i", "j", "k", "l", "m",
      "n", "o", "p", "q", "r", "s", "t", "u", "v", "w", "x", "y", "z">>

\* ord(c), up to a shift
CodeOf ==
    [c \in {Alphabet[i] : i \in DOMAIN Alphabet} |->
        CHOOSE i \in DOMAIN Alphabet : Alphabet[i] = c]

Code(c) == CodeOf[c]

IsSpace(c) == c = " "

\* c.lower(), for every character
LowerOf ==
    [c \in DOMAIN CodeOf |->
        IF CodeOf[c] \in CodeOf["A"]..CodeOf["Z"]
        THEN Alphabet[CodeOf[c] + (CodeOf["a"] - CodeOf["A"])]
        ELSE c]

LowerChar(c) == LowerOf[c]

\* str.lower()
lower(s) == [i \in DOMAIN s |-> LowerChar(s[i])]

RECURSIVE lstrip(_)
lstrip(s) ==
    IF s # <<>> /\ IsSpace(Head(s)) THEN lstrip(Tail(s)) ELSE s

RECURSIVE rstrip(_)
rstrip(s) ==
    IF s # <<>> /\ IsSpace(s[Len(s)])
    THEN rstrip(SubSeq(s, 1, Len(s) - 1))
    ELSE s

\* str.strip()
strip(s) == rstrip(lstrip(s))

\* s1 < s2 in code point order (the BINARY collation of ORDER BY).
RECURSIVE StrLess(_, _)
StrLess(s1, s2) ==
    IF s2 = <<>> THEN FALSE
    ELSE IF s1 = <<>> THEN TRUE
    ELSE IF Head(s1) # Head(s2) THEN Code(Head(s1)) < Code(Head(s2))
    ELSE StrLess(Tail(s1), Tail(s2))

\* Optional[str]
None == <<>>
Some(s) == <<s>>

\* Python truthiness of an Optional[str]: None and "" are falsy.
Truthy(o) == o # None /\ o[1] # <<>>

\* (o or "")
OrEmpty(o) == IF Truthy(o) THEN o[1] ELSE <<>>

----------------------------------------------------------------------------
(* Time.                                                                   *)

\* datetime.combine(d, datetime.min.time())
Midnight(d) == d * TicksPerDay

\* datetime.date()
DateOf(t) == t \div TicksPerDay

\* datetime.utcnow().date()
UtcToday == DateOf(now)

\* date.today(): the calendar date of the server's local time
LocalToday == DateOf(now + tz)

\* The server starts in the last instant of day StartDay.
StartNow == Midnight(StartDay + 1) - 1

LastNow == StartNow + MaxTicks

----------------------------------------------------------------------------
(* Python dict and SQL helpers.                                            *)

RECURSIVE Concat(_)
Concat(ss) == IF ss = <<>> THEN <<>> ELSE Head(ss) \o Concat(Tail(ss))

\* The keys of a dict built by writing the keys ks in order: each key once,
\* in the order of its first insertion.
RECURSIVE DictKeys(_)
DictKeys(ks) ==
    IF ks = <<>> THEN <<>>
    ELSE LET front == DictKeys(SubSeq(ks, 1, Len(ks) - 1))
             k     == ks[Len(ks)]
         IN  IF \E i \in DOMAIN front : front[i] = k
             THEN front ELSE Append(front, k)

\* The value a dict keeps for key k after vs[i] was written under ks[i] for
\* i = 1, 2, ...: a later write replaces an earlier one.
DictGet(ks, vs, k) ==
    LET I == {i \in DOMAIN ks : ks[i] = k}
    IN  vs[CHOOSE i \in I : \A j \in I : j <= i]

\* list({k: v}.values())
DictValues(ks, vs) ==
    LET keys == DictKeys(ks)
    IN  [i \in DOMAIN keys |-> DictGet(ks, vs, keys[i])]

\* list({s.user_name: s for s in rows}.values())
latest_entries(rows) ==
    DictValues([i \in DOMAIN rows |-> rows[i].user_name], rows)

\* ORDER BY Standup.user_name, Standup.created_at
KeyLess(a, b) ==
    \/ StrLess(a.user_name, b.user_name)
    \/ a.user_name = b.user_name /\ a.created_at < b.created_at

\* Every order in which the database may return the rows I of table under
\* ORDER BY user_name, created_at: rows with equal keys come in any order.
RECURSIVE OrderBy(_, _)
OrderBy(table, I) ==
    IF I = {} THEN {<<>>}
    ELSE UNION { { <<table[m]>> \o r : r \in OrderBy(table, I \ {m}) } :
                 m \in {i \in I : \A j \in I : ~KeyLess(table[j], table[i])} }

\* timedelta(days=7)
RecentDays == 7

\* The rows selected by recent_statement, before ordering.
RecentRows(table, team_id, today) ==
    {i \in DOMAIN table :
        /\ table[i].team_id = team_id
        /\ table[i].created_at >= Midnight(today - RecentDays)}

\* The rows of today's query of get_dashboard and get_today_report.
TodaysRows(table, team_id, today) ==
    LET Keep(s) == /\ s.team_id = team_id
                   /\ s.created_at >= Midnight(today)
                   /\ s.created_at < Midnight(today + 1)
    IN  SelectSeq(table, Keep)

----------------------------------------------------------------------------
(* summarize_standups                                                      *)

Str_none == <<"n", "o", "n", "e">>

\* One block of the rule-based summary.
FallbackLine(s) ==
    [user_name |-> s.user_name, yesterday |-> s.yesterday, today |-> s.today,
     blocker |-> IF Truthy(s.blockers) /\ lower(strip(s.blockers[1])) # Str_none
                 THEN s.blockers ELSE None]

\* The rule-based summary.
FallbackSummary(rows) ==
    [kind |-> "Daily Stand-up Summary", ai |-> None,
     lines |-> [i \in DOMAIN rows |-> FallbackLine(rows[i])]]

\* What client.chat.completions.create does: gen.ok with the text gen.text,
\* or an exception.
AiSummary(gen) == [kind |-> "ai", ai |-> Some(strip(gen.text)), lines |-> <<>>]

NoUpdatesSummary ==
    [kind |-> "No stand-up updates found for today.", ai |-> None, lines |-> <<>>]

\* summarize_standups returning whatever the generator left behind.
summarize_standups_unguarded(rows, groq, gen) ==
    IF rows = <<>> THEN NoUpdatesSummary
    ELSE IF groq THEN AiSummary(gen)
    ELSE FallbackSummary(rows)

\* groq is the module global client (TRUE iff configured), gen what the
\* generator does if it is called.
summarize_standups(rows, groq, gen) ==
    IF rows = <<>> THEN NoUpdatesSummary
    ELSE IF groq
         THEN IF gen.ok
              THEN AiSummary(gen)
              ELSE FallbackSummary(rows)   \* except Exception: fall through
         ELSE FallbackSummary(rows)

\* The number of calls summarize_standups makes to the text generator.
GroqCalls(rows, groq, gen) == IF rows # <<>> /\ groq THEN 1 ELSE 0

----------------------------------------------------------------------------
(* Risk detection.                                                         *)

Str_no_blockers == <<"n", "o", " ", "b", "l", "o", "c", "k", "e", "r", "s">>
Str_n_a == <<"n", "/", "a">>
Str_na == <<"n", "a">>

\* ["none", "no blockers", "n/a", "na"]
NoBlockerWords == {Str_none, Str_no_blockers, Str_n_a, Str_na}

\* user_entries[u]: the rows of user u, in the order of recent.
UserEntries(recent, u) ==
    LET Keep(s) == s.user_name = u IN SelectSeq(recent, Keep)

\* by_date.get(d), by_date filled by writing entries in order.
ByDateGet(entries, d) ==
    LET I == {i \in DOMAIN entries : DateOf(entries[i].created_at) = d}
    IN  IF I = {} THEN None
        ELSE Some(entries[CHOOSE i \in I : \A j \in I : j <= i])

StaleTask(user, yesterday, today, today_entry) ==
    [user |-> user, type |-> "Stale Task",
     description |-> <<"Task unchanged between", yesterday, today,
                       Some(today_entry.today)>>]

RepeatedBlocker(user, yesterday, today, today_entry) ==
    [user |-> user, type |-> "Repeated Blocker",
     description |-> <<"Same blocker reported on", yesterday, today,
                       today_entry.blockers>>]

MissingUpdate(user, last_at, days_missing) ==
    [user |-> user, type |-> "Missing Update",
     description |-> <<"Last update was on", DateOf(last_at), days_missing,
                       None>>]

\* RiskUserFindings comparing the today texts as they were written.
RiskUserFindings_verbatim(user, entries, today) ==
    LET yesterday == today - 1
        t == ByDateGet(entries, today)
        y == ByDateGet(entries, yesterday)
    IN  IF t # None /\ y # None /\ t[1].today = y[1].today
        THEN <<StaleTask(user, yesterday, today, t[1])>>
        ELSE <<>>

\* RiskUserFindings taking any text for a blocker.
RiskUserFindings_any_text(user, entries, today) ==
    LET yesterday == today - 1
        t == ByDateGet(entries, today)
        y == ByDateGet(entries, yesterday)
    IN  IF /\ t # None
           /\ y # None
           /\ lower(strip(OrEmpty(t[1].blockers))) # <<>>
           /\ lower(strip(OrEmpty(t[1].blockers)))
                = lower(strip(OrEmpty(y[1].blockers)))
        THEN <<RepeatedBlocker(user, yesterday, today, t[1])>>
        ELSE <<>>

\* get_risk_report: the findings of one user of user_entries.
RiskUserFindings(user, entries, today) ==
    LET yesterday == today - 1
        t == ByDateGet(entries, today)
        y == ByDateGet(entries, yesterday)
    IN  IF t # None /\ y # None
        THEN LET today_entry == t[1]
                 yesterday_entry == y[1]
                 t_block == lower(strip(OrEmpty(today_entry.blockers)))
                 y_block == lower(strip(OrEmpty(yesterday_entry.blockers)))
             IN  (IF lower(strip(today_entry.today))
                        = lower(strip(yesterday_entry.today))
                  THEN <<StaleTask(user, yesterday, today, today_entry)>>
                  ELSE <<>>)
                 \o
                 (IF /\ t_block # <<>>
                     /\ y_block # <<>>
                     /\ t_block = y_block
                     /\ t_block \notin NoBlockerWords
                  THEN <<RepeatedBlocker(user, yesterday, today, today_entry)>>
                  ELSE <<>>)
        ELSE <<>>

\* The users of a team, as GROUP BY user_name returns them.
RECURSIVE SortUsers(_)
SortUsers(U) ==
    IF U = {} THEN <<>>
    ELSE LET m == CHOOSE u \in U : \A v \in U : ~StrLess(v, u)
         IN  <<m>> \o SortUsers(U \ {m})

\* func.max(Standup.created_at) of the group of user.
LastAt(table, team_id, user) ==
    LET T == {table[i].created_at : i \in
                {j \in DOMAIN table : /\ table[j].team_id = team_id
                                      /\ table[j].user_name = user}}
    IN  CHOOSE m \in T : \A x \in T : x <= m

\* days_missing: int = 2
DefaultDaysMissing == 2

\* MissingUpdates reporting a user from the day the threshold is reached.
MissingUpdates_early(table, team_id, today, days_missing) ==
    LET rows == SortUsers({table[i].user_name :
                    i \in {j \in DOMAIN table : table[j].team_id = team_id}})
        Late(user) ==
            DateOf(LastAt(table, team_id, user)) <= today - (days_missing - 1)
        Finding(user) == MissingUpdate(user, LastAt(table, team_id, user), days_missing)
    IN  Concat([i \in DOMAIN rows |->
                  IF Late(rows[i]) THEN <<Finding(rows[i])>> ELSE <<>>])

\* get_risk_report: the Missing Update findings.
MissingUpdates(table, team_id, today, days_missing) ==
    LET rows == SortUsers({table[i].user_name :
                    i \in {j \in DOMAIN table : table[j].team_id = team_id}})
        Late(user) ==
            DateOf(LastAt(table, team_id, user)) < today - (days_missing - 1)
        Finding(user) == MissingUpdate(user, LastAt(table, team_id, user), days_missing)
    IN  Concat([i \in DOMAIN rows |->
                  IF Late(rows[i]) THEN <<Finding(rows[i])>> ELSE <<>>])

\* get_risk_report: the body of the response, recent being the rows the
\* database returned for recent_statement.
RiskReport(table, team_id, days_missing, recent) ==
    LET today == UtcToday
        users == DictKeys([i \in DOMAIN recent |-> recent[i].user_name])
    IN  [team_id |-> team_id,
         date    |-> today,
         risks   |->
            Concat([i \in DOMAIN users |->
                RiskUserFindings(users[i], UserEntries(recent, users[i]), today)])
            \o MissingUpdates(table, team_id, today, days_missing)]

----------------------------------------------------------------------------
(* Dashboard.                                                              *)

\* get_dashboard: the findings of one user of user_entries.
DashUserFindings(user, entries, today) ==
    LET yesterday == today - 1
        t == ByDateGet(entries, today)
        y == ByDateGet(entries, yesterday)
    IN  IF t # None /\ y # None
        THEN LET today_entry == t[1]
                 yesterday_entry == y[1]
                 t_block == lower(strip(OrEmpty(today_entry.blockers)))
                 y_block == lower(strip(OrEmpty(yesterday_entry.blockers)))
             IN  (IF lower(strip(today_entry.today))
                        = lower(strip(yesterday_entry.today))
                  THEN <<StaleTask(user, yesterday, today, today_entry)>>
                  ELSE <<>>)
                 \o
                 (IF /\ t_block # <<>>
                     /\ y_block # <<>>
                     /\ t_block = y_block
                     /\ t_block \notin NoBlockerWords
                  THEN <<RepeatedBlocker(user, yesterday, today, today_entry)>>
                  ELSE <<>>)
        ELSE <<>>

UpdateRecord(s) ==
    [user |-> s.user_name, yesterday |-> s.yesterday, today |-> s.today,
     blockers |-> s.blockers, created_at |-> s.created_at]

\* get_dashboard: the body of the response, recent being the rows the
\* database returned for recent_statement and gen what the generator does.
Dashboard(table, team_id, gen, recent) ==
    LET today == LocalToday
        latest == latest_entries(TodaysRows(table, team_id, today))
        users == DictKeys([i \in DOMAIN recent |-> recent[i].user_name])
    IN  [team_id |-> team_id,
         date    |-> today,
         summary |-> summarize_standups(latest, client, gen),
         risks   |->
            Concat([i \in DOMAIN users |->
                DashUserFindings(users[i], UserEntries(recent, users[i]), today)]),
         updates |-> [i \in DOMAIN latest |-> UpdateRecord(latest[i])]]

----------------------------------------------------------------------------
(* Slack delivery.                                                         *)

Str_None == <<"N", "o", "n", "e">>

\* The dict send_slack_report uses when the dashboard cannot be fetched.
NoDashboard ==
    [summary |-> [kind |-> "No summary available.", ai |-> None, lines |-> <<>>],
     risks   |-> <<>>,
     updates |-> <<>>]

\* The short summary send_slack_report writes for a single user.
UserSummary(u) ==
    [kind  |-> "latest stand-up",
     ai    |-> None,
     lines |-> <<[user_name |-> u.user, yesterday |-> u.yesterday,
                  today |-> u.today,
                  blocker |-> IF Truthy(u.blockers)
                              THEN u.blockers ELSE Some(Str_None)]>>]

\* send_slack_report: the updates left after the dict comprehension and
\* the filter on user_name.
slack_updates(dashboard, user_name) ==
    LET unique  == DictValues([i \in DOMAIN dashboard.updates |->
                                  dashboard.updates[i].user],
                              dashboard.updates)
        Mine(u) == lower(u.user) = lower(user_name[1])
    IN  IF Truthy(user_name) THEN SelectSeq(unique, Mine) ELSE unique

\* send_slack_report: risk_text
slack_risk_text(dashboard, user_name) ==
    IF Truthy(user_name)
    THEN [kind |-> "individual", items |-> <<>>]
    ELSE IF dashboard.risks = <<>>
    THEN [kind |-> "No major risks detected.", items |-> <<>>]
    ELSE [kind |-> "list", items |-> dashboard.risks]

\* send_slack_report: the message, built once updates is known to hold the
\* user's update if user_name names one.
slack_message(dashboard, updates, team_id, user_name) ==
    [title   |-> IF user_name = None
                 THEN <<"Daily Stand-up Report", LocalToday, None>>
                 ELSE <<"Stand-up Update", 0, user_name>>,
     team_id |-> team_id,
     summary |-> IF Truthy(user_name)
                 THEN UserSummary(updates[1]) ELSE dashboard.summary,
     risks   |-> IF user_name = None
                 THEN <<slack_risk_text(dashboard, user_name)>> ELSE <<>>,
     updates |-> updates]

\* send_slack_report, from the read of SLACK_WEBHOOK_URL on: post says what
\* requests.post does, which no try statement surrounds.
slack_post(message, post) ==
    IF ~slack_webhook
    THEN [outcome |-> "skipped: SLACK_WEBHOOK_URL not configured",
          message |-> <<>>]
    ELSE IF post.raises
    THEN [outcome |-> "raised", message |-> <<message>>]
    ELSE IF post.status_code # 200
    THEN [outcome |-> "Slack post failed", message |-> <<message>>]
    ELSE [outcome |-> "posted", message |-> <<message>>]

\* send_slack_report, once the dashboard is fetched and updates computed.
slack_send(dashboard, updates, team_id, user_name, post) ==
    IF Truthy(user_name) /\ updates = <<>>
    THEN [outcome |-> "skipped: no update of the user", message |-> <<>>]
    ELSE slack_post(slack_message(dashboard, updates, team_id, user_name), post)

\* send_slack_report, once the dashboard is fetched.
slack_report(dashboard, team_id, user_name, post) ==
    slack_send(dashboard, slack_updates(dashboard, user_name), team_id,
               user_name, post)

\* send_slack_report(team_id, user_name).  io says what the outside world
\* does during the call: io.fetch, whether the GET of the dashboard returns
\* the payload; io.gen and io.recent, the generator's answer and the order
\* of the rows inside get_dashboard; io.post, what requests.post does.
\* The result says how the call ended and which message it posted, if any.
send_slack_report(table, team_id, user_name, io) ==
    slack_report(IF io.fetch
                 THEN Dashboard(table, team_id, io.gen, io.recent)
                 ELSE NoDashboard,
                 team_id, user_name, io.post)

\* What the text generator may do when called.
Generators ==
    {[ok |-> TRUE, text |-> <<" ", "A", "l", "l", " ", "o", "k", " ">>],
     [ok |-> FALSE, text |-> <<>>]}

\* What requests.post may do: raise (unreachable, timeout), or answer.
Posts ==
    {[raises |-> TRUE, status_code |-> 0],
     [raises |-> FALSE, status_code |-> 200],
     [raises |-> FALSE, status_code |-> 500]}

\* The worlds a call of send_slack_report on table for team_id may meet.
\* A part of the world the call cannot reach is fixed to one value.
SlackWorlds(table, team_id) ==
    { [fetch |-> f, gen |-> g, recent |-> r, post |-> p] :
        f \in BOOLEAN,
        g \in IF client THEN Generators ELSE {[ok |-> FALSE, text |-> <<>>]},
        r \in OrderBy(table, RecentRows(table, team_id, LocalToday)),
        p \in IF slack_webhook THEN Posts
              ELSE {[raises |-> FALSE, status_code |-> 200]} }

----------------------------------------------------------------------------
(* The state machine.                                                      *)

\* The threads that may call start_scheduler: the one on_startup runs on,
\* and two more whose calls may overlap it (the function takes no lock).
Threads == {"main", "reload", "second"}

NoResponse == [kind |-> "none", status |-> 0]

NoDelivery ==
    [caller |-> "none", outcome |-> "none", message |-> <<>>,
     caller_raised |-> FALSE]

\* The state after the module is loaded: zones, keys and hooks say which
\* local time offsets, GROQ_API_KEY settings and SLACK_WEBHOOK_URL settings
\* the process may have been started with.
InitWith(zones, keys, hooks) ==
    /\ teams = {}
    /\ standups = <<>>
    /\ now = StartNow
    /\ tz \in zones
    /\ client \in keys
    /\ slack_webhook \in hooks
    /\ _scheduler = 0
    /\ schedulers = <<>>
    /\ pc = [th \in Threads |-> "idle"]
    /\ resp = NoResponse
    /\ delivery = NoDelivery

db == <<teams, standups>>
env == <<tz, client, slack_webhook>>
sched == <<_scheduler, schedulers, pc>>

\* The clock advances.
Tick ==
    /\ now < LastNow
    /\ now' = now + 1
    /\ UNCHANGED <<db, env, sched, resp, delivery>>

\* on_startup, up to the call of start_scheduler (init_db creates the
\* tables, which the model has from the start).
on_startup(th) ==
    /\ pc[th] = "idle"
    /\ pc' = [pc EXCEPT ![th] = "check"]
    /\ UNCHANGED <<db, now, env, _scheduler, schedulers, resp, delivery>>

\* start_scheduler: if _scheduler and _scheduler.running: return
start_scheduler_check(th) ==
    /\ pc[th] = "check"
    /\ pc' = [pc EXCEPT ![th] =
                IF _scheduler # 0 /\ schedulers[_scheduler].running
                THEN "done" ELSE "create"]
    /\ UNCHANGED <<db, now, env, _scheduler, schedulers, resp, delivery>>

\* start_scheduler: _scheduler = BackgroundScheduler()
start_scheduler_create(th) ==
    /\ pc[th] = "create"
    /\ Len(schedulers) < MaxSchedulers
    /\ schedulers' = Append(schedulers, [running |-> FALSE, jobs |-> 0])
    /\ _scheduler' = Len(schedulers) + 1
    /\ pc' = [pc EXCEPT ![th] = "add_job"]
    /\ UNCHANGED <<db, now, env, resp, delivery>>

\* start_scheduler: _scheduler.add_job(...), on the object the global names
\* at this moment.
start_scheduler_add_job(th) ==
    /\ pc[th] = "add_job"
    /\ schedulers' = [schedulers EXCEPT ![_scheduler].jobs = @ + 1]
    /\ pc' = [pc EXCEPT ![th] = "start"]
    /\ UNCHANGED <<db, now, env, _scheduler, resp, delivery>>

\* start_scheduler: _scheduler.start(), which raises
\* SchedulerAlreadyRunningError on a scheduler that is running.
start_scheduler_start(th) ==
    /\ pc[th] = "start"
    /\ IF schedulers[_scheduler].running
       THEN /\ pc' = [pc EXCEPT ![th] = "raised"]
            /\ UNCHANGED schedulers
       ELSE /\ schedulers' = [schedulers EXCEPT ![_scheduler].running = TRUE]
            /\ pc' = [pc EXCEPT ![th] = "done"]
    /\ UNCHANGED <<db, now, env, _scheduler, resp, delivery>>

\* One step of on_startup by thread th.
Startup(th) ==
    \/ on_startup(th)
    \/ start_scheduler_check(th)
    \/ start_scheduler_create(th)
    \/ start_scheduler_add_job(th)
    \/ start_scheduler_start(th)

\* start_scheduler is called once more by a thread that has left it.
start_scheduler_again(th) ==
    /\ pc[th] \in {"done", "raised"}
    /\ pc' = [pc EXCEPT ![th] = "check"]
    /\ UNCHANGED <<db, now, env, _scheduler, schedulers, resp, delivery>>

\* The server answers requests once its start-up has completed.
Serving == pc["main"] = "done"

\* POST /teams, the database choosing the id.
create_team ==
    /\ Serving
    /\ Cardinality(teams) < MaxTeams
    /\ teams' = teams \cup {Cardinality(teams) + 1}
    /\ resp' = [kind |-> "create_team", status |-> 200,
                team_id |-> Cardinality(teams) + 1]
    /\ UNCHANGED <<standups, now, env, sched, delivery>>

\* The row session.add stores for the request body standup: the database
\* chooses the id, and created_at defaults to datetime.utcnow().
NewRow(standup) ==
    [id         |-> Len(standups) + 1,
     team_id    |-> standup.team_id,
     user_name  |-> standup.user_name,
     yesterday  |-> standup.yesterday,
     today      |-> standup.today,
     blockers   |-> standup.blockers,
     created_at |-> IF standup.created_at = None
                    THEN now ELSE standup.created_at[1]]

\* TeamFound without the look-up.
TeamFound_unchecked(team_id) == TRUE

\* session.get(Team, team_id) finds a row.
TeamFound(team_id) == team_id \in teams

\* How notify_slack and the scheduled job end once send_slack_report has
\* ended with sent: nothing catches an exception of send_slack_report.
uncaught_ending(sent) ==
    [status |-> IF sent.outcome = "raised" THEN 500 ELSE 200,
     caller_raised |-> sent.outcome = "raised"]

\* submit_ending without the try statement.
submit_ending_uncaught(sent) ==
    [status |-> IF sent.outcome = "raised" THEN 500 ELSE 201,
     caller_raised |-> sent.outcome = "raised"]

\* How submit_standup ends once send_slack_report has ended with sent:
\* try: send_slack_report(...) except Exception: print(...)
submit_ending(sent) == [status |-> 201, caller_raised |-> FALSE]

\* POST /standup
submit_standup(standup) ==
    /\ Serving
    /\ IF ~TeamFound(standup.team_id)
       THEN /\ resp' = [kind |-> "submit_standup", status |-> 404,
                        team_id |-> standup.team_id]
            /\ UNCHANGED <<standups, delivery>>
       ELSE /\ Len(standups) < MaxStandups
            /\ standups' = Append(standups, NewRow(standup))
            /\ \E io \in SlackWorlds(standups', standup.team_id) :
                 LET sent == send_slack_report(standups', standup.team_id,
                                               Some(standup.user_name), io)
                 IN  /\ delivery' = [caller |-> "submit_standup",
                                     outcome |-> sent.outcome,
                                     message |-> sent.message,
                                     caller_raised |-> submit_ending(sent).caller_raised]
                     /\ resp' = [kind |-> "submit_standup",
                                 status |-> submit_ending(sent).status,
                                 team_id |-> standup.team_id,
                                 standup |-> NewRow(standup)]
    /\ UNCHANGED <<teams, now, env, sched>>

\* GET /report/today/{team_id}
get_today_report(team_id) ==
    /\ Serving
    /\ \E gen \in Generators :
         LET results == TodaysRows(standups, team_id, LocalToday)
         IN  resp' = [kind |-> "report", status |-> 200, team_id |-> team_id,
                      date |-> LocalToday,
                      report |-> summarize_standups(results, client, gen),
                      llm_calls |-> GroqCalls(results, client, gen),
                      llm_failed |-> GroqCalls(results, client, gen) > 0 /\ ~gen.ok]
    /\ UNCHANGED <<db, now, env, sched, delivery>>

\* GET /risk/today/{team_id}?days_missing=...
get_risk_report(team_id, days_missing) ==
    /\ Serving
    /\ \E recent \in OrderBy(standups, RecentRows(standups, team_id, UtcToday)) :
         resp' = [kind |-> "risk", status |-> 200, team_id |-> team_id,
                  days_missing |-> days_missing,
                  body |-> RiskReport(standups, team_id, days_missing, recent)]
    /\ UNCHANGED <<db, now, env, sched, delivery>>

\* GET /dashboard/today/{team_id}
get_dashboard(team_id) ==
    /\ Serving
    /\ \E gen \in Generators :
       \E recent \in OrderBy(standups, RecentRows(standups, team_id, LocalToday)) :
         resp' = [kind |-> "dashboard", status |-> 200, team_id |-> team_id,
                  body |-> Dashboard(standups, team_id, gen, recent)]
    /\ UNCHANGED <<db, now, env, sched, delivery>>

\* POST /notify/slack/{team_id}: an exception of send_slack_report leaves
\* the handler, and the client gets status 500.
notify_slack(team_id) ==
    /\ Serving
    /\ \E io \in SlackWorlds(standups, team_id) :
         LET sent == send_slack_report(standups, team_id, None, io)
         IN  /\ delivery' = [caller |-> "notify_slack",
                             outcome |-> sent.outcome,
                             message |-> sent.message,
                             caller_raised |-> uncaught_ending(sent).caller_raised]
             /\ resp' = [kind |-> "notify_slack",
                         status |-> uncaught_ending(sent).status,
                         team_id |-> team_id]
    /\ UNCHANGED <<db, now, env, sched>>

\* The job start_scheduler registered runs: lambda: send_slack_report(1, None).
\* An exception of send_slack_report leaves the job.
daily_job ==
    /\ \E k \in DOMAIN schedulers :
         schedulers[k].running /\ schedulers[k].jobs > 0
    /\ \E io \in SlackWorlds(standups, 1) :
         LET sent == send_slack_report(standups, 1, None, io)
         IN  delivery' = [caller |-> "daily_job",
                          outcome |-> sent.outcome,
                          message |-> sent.message,
                          caller_raised |-> uncaught_ending(sent).caller_raised]
    /\ UNCHANGED <<db, now, env, sched, resp>>

----------------------------------------------------------------------------
(* Requests.                                                               *)

alice == <<"a", "l", "i", "c", "e">>
bob == <<"b", "o", "b">>

Str_Fix == <<"F", "i", "x">>
Str_fix_padded == <<" ", "f", "i", "x", " ">>
Str_Docs == <<"D", "o", "c", "s">>
Str_Ok == <<"O", "k">>

Str_Wait == <<"W", "a", "i", "t">>
Str_wait_padded == <<"w", "a", "i", "t", " ">>
Str_NA == <<"N", "/", "A">>

TeamIds == {1, 2}

\* Timestamps a client may send: the first instant of the day the server
\* started, of the day before and of the third day before.
EarlierToday == Midnight(StartDay)
Yesterday == Midnight(StartDay - 1)
ThreeDaysAgo == Midnight(StartDay - 3)

\* The bodies of POST /standup with the given field values; a created_at
\* of None leaves the timestamp to the server.
Bodies(team_ids, users, todays, blockers, stamps) ==
    [team_id : team_ids, user_name : users, yesterday : {Str_Ok},
     today : todays, blockers : blockers, created_at : stamps]


\* The rows of table standup with the given field values.
Rows(team_ids, users, todays, blockers, stamps) ==
    [team_id : team_ids, user_name : users, yesterday : {Str_Ok},
     today : todays, blockers : blockers, created_at : stamps]

\* The tables of at most MaxStandups rows drawn from rows, the database
\* having numbered them in the order of insertion.
Tables(rows) ==
    { [i \in DOMAIN t |->
         [id |-> i, team_id |-> t[i].team_id, user_name |-> t[i].user_name,
          yesterday |-> t[i].yesterday, today |-> t[i].today,
          blockers |-> t[i].blockers, created_at |-> t[i].created_at]] :
      t \in UNION { [1..n -> rows] : n \in 0..MaxStandups } }

\* A state in which the server is serving requests: start-up has run on
\* the main thread, two teams were created, the table standup holds one
\* of tables and the clock reads one of clocks.
InitServing(tables, clocks, zones, keys, hooks) ==
    /\ teams = {1, 2}
    /\ standups \in tables
    /\ now \in clocks
    /\ tz \in zones
    /\ client \in keys
    /\ slack_webhook \in hooks
    /\ _scheduler = 1
    /\ schedulers = <<[running |-> TRUE, jobs |-> 1]>>
    /\ pc = [th \in Threads |-> IF th = "main" THEN "done" ELSE "idle"]
    /\ resp = NoResponse
    /\ delivery = NoDelivery

----------------------------------------------------------------------------
(* Stale Task findings of the risk report.                                 *)

StaleRows ==
    Rows({1}, {alice}, {Str_Fix, Str_fix_padded, Str_Docs}, {None},
         {EarlierToday, StartNow, StartNow + 1})
    \cup Rows({1}, {alice}, {Str_Fix}, {None}, {Yesterday})
    \cup Rows({1}, {bob}, {Str_Fix}, {None}, {StartNow, StartNow + 1})
    \cup Rows({2}, {alice}, {Str_Fix}, {None}, {StartNow})

InitStale ==
    InitServing(Tables(StaleRows), {StartNow, StartNow + 1}, {0}, {FALSE}, {FALSE})

NextStale == \E team_id \in TeamIds : get_risk_report(team_id, DefaultDaysMissing)

SpecStale == InitStale /\ [][NextStale]_vars

\* The rows of team_id and user whose created_at falls on day d.
EntriesOn(team_id, user, d) ==
    {i \in DOMAIN standups :
        /\ standups[i].team_id = team_id
        /\ standups[i].user_name = user
        /\ DateOf(standups[i].created_at) = d}

\* Among them, the rows with the maximum created_at.
LatestOn(team_id, user, d) ==
    {i \in EntriesOn(team_id, user, d) :
        \A j \in EntriesOn(team_id, user, d) :
            standups[j].created_at <= standups[i].created_at}

\* The findings of the given type that risks holds for user.
Findings(risks, user, type) ==
    {i \in DOMAIN risks : risks[i].user = user /\ risks[i].type = type}

\* The users a risk report may speak of.
ReportUsers(risks) ==
    {standups[i].user_name : i \in DOMAIN standups}
    \cup {risks[i].user : i \in DOMAIN risks}

SameTask(i, j) ==
    lower(strip(standups[i].today)) = lower(strip(standups[j].today))

\* C3: the risk report holds exactly one Stale Task finding for a user who
\* has an entry on the report's date and one on the day before, the
\* trimmed, lower-cased today texts of the latest entry of either day being
\* equal, and none for any other user.  (Where two entries of a day share
\* the maximum created_at, either may count as the latest.)
C3_StaleTaskIff ==
    resp.kind = "risk" =>
        \A u \in ReportUsers(resp.body.risks) :
            LET n == Cardinality(Findings(resp.body.risks, u, "Stale Task"))
                T == LatestOn(resp.team_id, u, resp.body.date)
                Y == LatestOn(resp.team_id, u, resp.body.date - 1)
            IN  /\ n <= 1
                /\ n = 1 => \E i \in T, j \in Y : SameTask(i, j)
                /\ (T # {} /\ Y # {} /\ \A i \in T, j \in Y : SameTask(i, j))
                      => n = 1

\* A Stale Task finding for a user whose latest entries of the two days
\* differ in case or padding, one of the days holding an earlier entry
\* that was inserted after the latest one.
C3_Witness ==
    /\ resp.kind = "risk"
    /\ \E u \in ReportUsers(resp.body.risks) :
         /\ Findings(resp.body.risks, u, "Stale Task") # {}
         /\ \E i \in LatestOn(resp.team_id, u, resp.body.date),
               j \in LatestOn(resp.team_id, u, resp.body.date - 1) :
              /\ standups[i].today # standups[j].today
              /\ \E k \in DOMAIN standups :
                   /\ k > i
                   /\ standups[k].user_name = u
                   /\ standups[k].team_id = resp.team_id
                   /\ DateOf(standups[k].created_at) = resp.body.date
                   /\ standups[k].created_at < standups[i].created_at
                   /\ ~SameTask(k, j)

----------------------------------------------------------------------------
(* Repeated Blocker findings of the risk report.                           *)

Str_na_upper == <<"N", "A">>
Str_n_a_padded == <<"n", "/", "a", " ">>
Str_none_padded == <<" ", "n", "o", "n", "e">>
Str_No_Blockers == <<"N", "o", " ", "B", "l", "o", "c", "k", "e", "r", "s">>
Str_Review == <<"R", "e", "v", "i", "e", "w">>

BlockerRows ==
    Rows({1}, {alice}, {Str_Fix},
         {None, Some(<<>>), Some(Str_None), Some(Str_NA), Some(Str_na),
          Some(Str_No_Blockers), Some(Str_Wait)},
         {StartNow})
    \cup
    Rows({1}, {alice}, {Str_Fix},
         {None, Some(<<" ">>), Some(Str_none_padded), Some(Str_n_a_padded),
          Some(Str_na_upper), Some(Str_no_blockers), Some(Str_wait_padded),
          Some(Str_Review)},
         {StartNow + 1})

InitBlocker ==
    InitServing(Tables(BlockerRows), {StartNow + 1}, {0}, {FALSE}, {FALSE})

NextBlocker == get_risk_report(1, DefaultDaysMissing)

SpecBlocker == InitBlocker /\ [][NextBlocker]_vars

\* The blocker of row i is absent, empty or, trimmed and lower-cased, empty
\* or one of the words that say there is none.
NoBlocker(i) ==
    \/ standups[i].blockers = None
    \/ standups[i].blockers[1] = <<>>
    \/ lower(strip(standups[i].blockers[1])) \in NoBlockerWords \cup {<<>>}

SameBlocker(i, j) ==
    /\ ~NoBlocker(i)
    /\ ~NoBlocker(j)
    /\ lower(strip(standups[i].blockers[1])) = lower(strip(standups[j].blockers[1]))

\* C4: the risk report holds no Repeated Blocker finding for a user whose
\* blocker of the report's date or of the day before is absent, empty or a
\* word for no blocker, and exactly one for a user whose latest entries of
\* the two days carry the same blocker up to case and padding.  (Where two
\* entries of a day share the maximum created_at, either may count as the
\* latest.)
C4_RepeatedBlockerIff ==
    resp.kind = "risk" =>
        \A u \in ReportUsers(resp.body.risks) :
            LET n == Cardinality(Findings(resp.body.risks, u, "Repeated Blocker"))
                T == LatestOn(resp.team_id, u, resp.body.date)
                Y == LatestOn(resp.team_id, u, resp.body.date - 1)
            IN  /\ n <= 1
                /\ n = 1 => \E i \in T, j \in Y : SameBlocker(i, j)
                /\ (T # {} /\ Y # {} /\ \A i \in T, j \in Y : SameBlocker(i, j))
                      => n = 1

\* A Repeated Blocker finding for blockers that differ as written.
C4_Witness ==
    /\ resp.kind = "risk"
    /\ \E u \in ReportUsers(resp.body.risks) :
         /\ Findings(resp.body.risks, u, "Repeated Blocker") # {}
         /\ \E i \in LatestOn(resp.team_id, u, resp.body.date),
               j \in LatestOn(resp.team_id, u, resp.body.date - 1) :
              standups[i].blockers # standups[j].blockers

----------------------------------------------------------------------------
(* Missing Update findings of the risk report.                             *)

MissingRows ==
    Rows({1}, {alice, bob}, {Str_Fix}, {None},
         {ThreeDaysAgo, Yesterday, StartNow, StartNow + 1})
    \cup Rows({2}, {alice}, {Str_Fix}, {None}, {ThreeDaysAgo, StartNow + 1})

DaysMissing == {1, 2, 3}

InitMissing ==
    InitServing(Tables(MissingRows), {StartNow, StartNow + 1}, {0}, {FALSE}, {FALSE})

NextMissing ==
    \/ \E days_missing \in DaysMissing : get_risk_report(1, days_missing)
    \/ get_risk_report(2, DefaultDaysMissing)

SpecMissing == InitMissing /\ [][NextMissing]_vars

\* The rows of team_id and user.
EntriesOf(team_id, user) ==
    {i \in DOMAIN standups :
        standups[i].team_id = team_id /\ standups[i].user_name = user}

\* The calendar date of the most recent of them.
LastSeen(team_id, user) ==
    DateOf(standups[CHOOSE i \in EntriesOf(team_id, user) :
                \A j \in EntriesOf(team_id, user) :
                    standups[j].created_at <= standups[i].created_at].created_at)

\* C5: the risk report holds a Missing Update finding for a user with an
\* entry for the team exactly if the date of the user's most recent entry
\* is earlier than the report's date less (days_missing - 1) days, and none
\* for a user without an entry for the team.
C5_MissingUpdateIff ==
    resp.kind = "risk" =>
        \A u \in ReportUsers(resp.body.risks) :
            LET n == Cardinality(Findings(resp.body.risks, u, "Missing Update"))
            IN  IF EntriesOf(resp.team_id, u) = {} THEN n = 0
                ELSE IF LastSeen(resp.team_id, u)
                          < resp.body.date - (resp.days_missing - 1)
                THEN n = 1
                ELSE n = 0

\* With the threshold of 2 days, a user last seen 3 days before the report's
\* date is reported and a user who posted the day before is not.
C5_Witness ==
    /\ resp.kind = "risk"
    /\ resp.days_missing = 2
    /\ \E u, v \in ReportUsers(resp.body.risks) :
         /\ EntriesOf(resp.team_id, u) # {}
         /\ LastSeen(resp.team_id, u) = resp.body.date - 3
         /\ Findings(resp.body.risks, u, "Missing Update") # {}
         /\ EntriesOf(resp.team_id, v) # {}
         /\ LastSeen(resp.team_id, v) = resp.body.date - 1
         /\ Findings(resp.body.risks, v, "Missing Update") = {}

----------------------------------------------------------------------------
(* The summary of the day's report.                                        *)

SummaryRows ==
    Rows({1}, {alice, bob}, {Str_Fix},
         {None, Some(Str_None), Some(Str_Wait)}, {StartNow})
    \cup Rows({1}, {alice}, {Str_Docs}, {Some(Str_none_padded)}, {EarlierToday})
    \cup Rows({2}, {bob}, {Str_Docs}, {None}, {StartNow})

InitSummary ==
    InitServing(Tables(SummaryRows), {StartNow, StartNow + 1}, {0},
                BOOLEAN, {FALSE})

NextSummary == \E team_id \in TeamIds : get_today_report(team_id)

SpecSummary == InitSummary /\ [][NextSummary]_vars

\* C10: when the configured generator fails on a non-empty list of entries,
\* the report is the text summarize_standups returns with no generator
\* configured, the rule-based summary, whatever a generator would have
\* done; the request succeeds and the generator was called once.
C10_FailureIsFallback ==
    (resp.kind = "report" /\ resp.llm_failed) =>
        LET results == TodaysRows(standups, resp.team_id, resp.date)
        IN  /\ results # <<>>
            /\ resp.status = 200
            /\ resp.llm_calls = 1
            /\ resp.report.kind = "Daily Stand-up Summary"
            /\ Len(resp.report.lines) = Len(results)
            /\ \A gen \in Generators :
                 resp.report = summarize_standups(results, FALSE, gen)

\* The generator failed on a list of two entries or more, one of them with
\* a blocker the summary shows.
C10_Witness ==
    /\ resp.kind = "report"
    /\ resp.llm_failed
    /\ Len(resp.report.lines) >= 2
    /\ \E i \in DOMAIN resp.report.lines : resp.report.lines[i].blocker # None

----------------------------------------------------------------------------
(* The service from its start: teams, submissions and delivery.            *)

Init == InitWith({0}, {FALSE}, BOOLEAN)

SubmitBodies ==
    Bodies(TeamIds, {alice}, {Str_Fix}, {None}, {None})
    \cup Bodies({1}, {bob}, {Str_Docs}, {Some(Str_Wait)}, {Some(Yesterday)})

Next ==
    \/ Startup("main")
    \/ create_team
    \/ \E standup \in SubmitBodies : submit_standup(standup)
    \/ \E team_id \in TeamIds : notify_slack(team_id)
    \/ daily_job

Spec == Init /\ [][Next]_vars

\* C6: no failure of send_slack_report raises into its caller: the caller
\* completes normally, and a request that triggered the delivery succeeds.
C6_DeliveryNeverRaises ==
    /\ ~delivery.caller_raised
    /\ resp.kind \in {"notify_slack", "submit_standup"} /\ TeamFound(resp.team_id)
          => resp.status \in {200, 201}

C9_UnknownTeamRejected ==
    /\ [](/\ \A i \in DOMAIN standups : standups[i].team_id \in teams
          /\ (resp.kind = "submit_standup" /\ resp.team_id \notin teams)
                => resp.status = 404)
    /\ [][(/\ resp'.kind = "submit_standup"
           /\ resp'.status = 404
           /\ resp' # resp)
              => /\ standups' = standups
                 /\ delivery' = delivery
                 /\ resp'.team_id \notin teams]_vars

\* A submission was rejected while the store holds entries.
C9_Witness ==
    /\ resp.kind = "submit_standup"
    /\ resp.status = 404
    /\ resp.team_id \notin teams
    /\ standups # <<>>

----------------------------------------------------------------------------
(* Concurrent calls of start_scheduler.                                    *)

InitSched == InitWith({0}, {FALSE}, {FALSE})

NextSched ==
    \E th \in Threads :
        \/ Startup(th)
        \/ start_scheduler_again(th)

SpecSched == InitSched /\ [][NextSched]_vars

\* The schedulers that are running.
RunningSchedulers == {k \in DOMAIN schedulers : schedulers[k].running}

\* C8: whatever the interleaving of the calls of start_scheduler, at most
\* one scheduler is running, it never holds the daily job twice, and once
\* every call has returned it holds the job exactly once.
C8_StartIsIdempotent ==
    /\ Cardinality(RunningSchedulers) <= 1
    /\ \A k \in RunningSchedulers : schedulers[k].jobs <= 1
    /\ (\A th \in Threads : pc[th] \in {"idle", "done"})
          => \A k \in RunningSchedulers : schedulers[k].jobs = 1

----------------------------------------------------------------------------
(* The dashboard.                                                          *)

DashRows ==
    Rows({1}, {alice}, {Str_Fix, Str_Docs}, {None}, {EarlierToday, StartNow})
    \cup Rows({1}, {bob}, {Str_Docs}, {Some(Str_Wait)}, {ThreeDaysAgo, Yesterday})
    \cup Rows({2}, {alice}, {Str_Fix}, {None}, {StartNow})

InitDash == InitServing(Tables(DashRows), {StartNow}, {0, 1}, {FALSE}, {FALSE})

NextDash ==
    \/ Tick
    \/ \E team_id \in TeamIds : get_dashboard(team_id)

SpecDash == InitDash /\ [][NextDash]_vars

\* The records of updates that speak of user.
UpdatesOf(updates, user) == {i \in DOMAIN updates : updates[i].user = user}

\* C1: the updates of a dashboard hold exactly one record for each user
\* with an entry of the team on the dashboard's date, the record of an
\* entry with the maximum created_at among the user's entries of that date,
\* and no record for anybody else.
C1_LatestPerUser ==
    resp.kind = "dashboard" =>
        LET updates == resp.body.updates
            d == resp.body.date
        IN  /\ \A i \in DOMAIN updates :
                 EntriesOn(resp.team_id, updates[i].user, d) # {}
            /\ \A u \in {standups[i].user_name : i \in DOMAIN standups} :
                 EntriesOn(resp.team_id, u, d) # {} =>
                    /\ Cardinality(UpdatesOf(updates, u)) = 1
                    /\ \A i \in UpdatesOf(updates, u) :
                         \E k \in LatestOn(resp.team_id, u, d) :
                            updates[i] = UpdateRecord(standups[k])

\* The findings of risks as a set keyed by user and type.
RiskKeys(risks) == {<<risks[i].user, risks[i].type>> : i \in DOMAIN risks}

\* C2: the risks of a dashboard for the current UTC date are, as a set
\* keyed by user and type, the risks the risk report with the default
\* threshold returns for the same team and date.
C2_DashboardRisksAreReportRisks ==
    (resp.kind = "dashboard" /\ resp.body.date = UtcToday) =>
        \E recent \in OrderBy(standups,
                              RecentRows(standups, resp.team_id, UtcToday)) :
            RiskKeys(resp.body.risks)
              = RiskKeys(RiskReport(standups, resp.team_id,
                                    DefaultDaysMissing, recent).risks)

====
